---- MODULE Spec2Model ----
(***************************************************************************)
(* Model of src/server.js: the express handlers for sign-up, login,        *)
(* logout, save-progress, load-progress, delete-progress and               *)
(* update-player, the authenticateUser middleware, and the two tables      *)
(* (users, user_progress) the handlers query through pool.query.           *)
(*                                                                         *)
(* Every handler is a sequence of steps separated by its awaits: a step    *)
(* is either one SQL statement executed by the database or the             *)
(* synchronous code between two awaits.  Handlers of different requests    *)
(* interleave at these steps.                                              *)
(***************************************************************************)
EXTENDS Integers, Sequences, FiniteSets, TLC

VARIABLES
    users,            \* table users: set of rows
    user_progress,    \* table user_progress: set of rows
    users_id_seq,     \* next id the users table generates
    progress_id_seq,  \* next id the user_progress table generates
    now,              \* wall clock in seconds (jwt iat / exp resolution)
    req,              \* req[r]: the request handled in slot r, and its handler's position
    started,          \* number of requests received so far
    issued,           \* history: every token jwt.sign has produced
    createdBy,        \* history: progress id -> userId the gate authenticated for the save
    loggedOut,        \* history: tokens whose logout succeeded and that were not issued again
    signedUp,         \* history: the credentials of the sign-ups answered with success
    delivered,        \* history: the tokens sent to clients in responses
    stored            \* history: the tokens written to users.token

vars == <<users, user_progress, users_id_seq, progress_id_seq, now, req, started,
          issued, createdBy, loggedOut, signedUp, delivered, stored>>

-----------------------------------------------------------------------------
(* Bounds of the model *)

MaxTime == 1
MaxStarted == 4
MaxSessionStarted == 3
MaxAllStarted == 3

Reqs == {"r1", "r2"}
Usernames == {"astra", "bren"}
Passwords == {"pw1"}
LoginPasswords == {"pw1", "wrong"}
AdventurerNames == {"Zel"}
NewAdventurerNames == {"Kai"}
SaveNames == {"slot1"}
Salts == {"salt"}

-----------------------------------------------------------------------------
(* Values *)

SECRET_KEY == "JWT_SECRET"
OtherKey == "not-the-secret"

NULL == [kind |-> "null"]
Undefined == [kind |-> "undefined"]
Garbage == [kind |-> "garbage"]

\* bcrypt.hash(password, 10): a salted one-way digest; the salt is part of the hash
BcryptHash(password, salt) == [salt |-> salt, digest |-> <<salt, password>>]

\* bcrypt.compare(password, hash): re-hash with the hash's salt and compare
BcryptCompare(password, hash) == BcryptHash(password, hash.salt) = hash

\* jwt.sign(payload, key) with no options: iat is set, no exp claim
JwtSign(userId, username, key, time) ==
    [kind |-> "jwt", userId |-> userId, username |-> username,
     iat |-> time, exp |-> {}, key |-> key]

\* jwt.verify(token, key): the error it throws, or "ok"
JwtVerify(token, key, time) ==
    IF token.kind # "jwt" THEN "JsonWebTokenError"
    ELSE IF token.key # key THEN "JsonWebTokenError"
    ELSE IF \E e \in token.exp : time >= e THEN "TokenExpiredError"
    ELSE "ok"

\* req.headers.authorization.split(' ')[1]
NoHeader == [present |-> FALSE, words |-> <<>>]
Bearer(token) == [present |-> TRUE, words |-> <<[kind |-> "word", text |-> "Bearer"], token>>]
SchemeOnly == [present |-> TRUE, words |-> <<[kind |-> "word", text |-> "Bearer"]>>]

HeaderToken(header) ==
    IF Len(header.words) >= 2 THEN header.words[2] ELSE Undefined

\* A string as the value of the error member of a JSON body; the member is
\* an object in the responses of the generic error handler
JsonString(text) == [string |-> text]

\* Responses: res.status(s).json(body)
Response(status, body) == [status |-> status, body |-> body]
NoResponse == [status |-> 0, body |-> NULL]


\* Errors thrown by pool.query; neither carries a status property
ConnectionError == [name |-> "Error", message |-> "connection terminated unexpectedly", status |-> {}]
UniqueViolation == [name |-> "error",
                    message |-> "duplicate key value violates unique constraint \"users_username_key\"",
                    status |-> {}]

\* Generic error handler: status = err.status || 500, body carries err.message
ErrorHandler(err) ==
    LET status == IF err.status = {} THEN 500 ELSE CHOOSE s \in err.status : TRUE
    IN  Response(status, [error |-> [message |-> err.message, status |-> status]])

InternalServerError == Response(500, [error |-> JsonString("Internal Server Error")])

\* A nullable integer column or parameter: {} is NULL / undefined, {n} is n
SqlNull == {}
SqlInt(n) == {n}

-----------------------------------------------------------------------------
(* The middleware *)

\* A faulty variant of AuthenticateUser: the token is decoded with jwt.decode,
\* which does not verify the signature
AuthenticateUserDecodeOnly(header, time) ==
    IF ~header.present \/ HeaderToken(header).kind # "jwt"
    THEN [passed |-> FALSE, user |-> NULL,
          res |-> Response(401, [error |-> JsonString("Unauthorized")])]
    ELSE [passed |-> TRUE,
          user |-> [userId |-> HeaderToken(header).userId,
                    username |-> HeaderToken(header).username],
          res |-> NoResponse]

\* authenticateUser: the outcome for a request carrying `header` at time `time`
AuthenticateUser(header, time) ==
    IF ~header.present
    THEN \* undefined.split throws a TypeError, caught below
         [passed |-> FALSE, user |-> NULL,
          res |-> Response(401, [error |-> JsonString("Unauthorized")])]
    ELSE LET token == HeaderToken(header)
             verdict == JwtVerify(token, SECRET_KEY, time)
         IN  IF verdict = "ok"
             THEN [passed |-> TRUE,
                   user |-> [userId |-> token.userId, username |-> token.username],
                   res |-> NoResponse]
             ELSE IF verdict = "TokenExpiredError"
             THEN [passed |-> FALSE, user |-> NULL,
                   res |-> Response(401, [error |-> JsonString("Token expired")])]
             ELSE [passed |-> FALSE, user |-> NULL,
                   res |-> Response(401, [error |-> JsonString("Unauthorized")])]

-----------------------------------------------------------------------------
(* The SQL statements *)

\* The users table rejects an INSERT whose username is already present
UsernameTaken(rows, username) == \E u \in rows : u.username = username

\* A faulty variant of InsertUser: ... ON CONFLICT (username) DO UPDATE SET password_hash,
\* adventurer_name: an existing row is overwritten and returned
InsertUserUpsert(rows, id, username, hashedPassword, adventurerName) ==
    IF UsernameTaken(rows, username)
    THEN [error |-> {},
          table |-> {IF u.username = username
                     THEN [u EXCEPT !.password_hash = hashedPassword,
                                    !.adventurer_name = adventurerName]
                     ELSE u : u \in rows},
          rows |-> {[id |-> u.id, username |-> username,
                     adventurer_name |-> adventurerName] :
                        u \in {v \in rows : v.username = username}}]
    ELSE [error |-> {},
          table |-> rows \cup {[id |-> id, username |-> username,
                                 password_hash |-> hashedPassword,
                                 adventurer_name |-> adventurerName, token |-> NULL]},
          rows |-> {[id |-> id, username |-> username,
                     adventurer_name |-> adventurerName]}]

\* INSERT INTO users (username, password_hash, adventurer_name) ... RETURNING
\* id, username, adventurer_name: the table afterwards and the rows returned, or
\* the error of the statement
InsertUser(rows, id, username, hashedPassword, adventurerName) ==
    IF UsernameTaken(rows, username)
    THEN [error |-> {UniqueViolation}, table |-> rows, rows |-> {}]
    ELSE [error |-> {},
          table |-> rows \cup {[id |-> id, username |-> username,
                                 password_hash |-> hashedPassword,
                                 adventurer_name |-> adventurerName, token |-> NULL]},
          rows |-> {[id |-> id, username |-> username,
                     adventurer_name |-> adventurerName]}]

\* A faulty variant of SelectUserByUsername: ... WHERE adventurer_name = $1
SelectUserByAdventurerName(rows, username) == {u \in rows : u.adventurer_name = username}

\* SELECT * FROM users WHERE username = $1
SelectUserByUsername(rows, username) == {u \in rows : u.username = username}

\* A faulty variant of UpdateToken: UPDATE users SET token = $1
UpdateTokenAllRows(rows, token, id) == {[u EXCEPT !.token = token] : u \in rows}

\* A faulty variant of UpdateToken: the statement is issued but not awaited,
\* and its effect is not yet in the table when the handler continues
UpdateTokenNotAwaited(rows, token, id) == rows

\* UPDATE users SET token = $1 WHERE id = $2
UpdateToken(rows, token, id) ==
    {IF u.id = id THEN [u EXCEPT !.token = token] ELSE u : u \in rows}

\* The tokens held in the token column of the users table
StoredTokens(rows) == {u.token : u \in rows} \ {NULL}

\* A faulty variant of UpdateAdventurerName: UPDATE users SET adventurer_name = $1
UpdateAdventurerNameAllRows(rows, name, id) ==
    {[u EXCEPT !.adventurer_name = name] : u \in rows}

\* UPDATE users SET adventurer_name = $1 WHERE id = $2
UpdateAdventurerName(rows, name, id) ==
    {IF u.id = id THEN [u EXCEPT !.adventurer_name = name] ELSE u : u \in rows}

\* A faulty variant of InsertProgress: the row of the same owner and save name
\* is replaced (INSERT ... ON CONFLICT (user_id, save_name) DO UPDATE)
InsertProgressUpsert(rows, id, body) ==
    {p \in rows : ~(p.user_id = body.userId /\ p.save_name = body.saveName)}
        \cup {[id |-> id, user_id |-> body.userId, story_id |-> body.storyId,
                chapter_id |-> body.chapterId, game_state |-> body.gameState,
                inventory |-> body.inventory, save_name |-> body.saveName]}

\* INSERT INTO user_progress (user_id, ..., save_name) VALUES ($1, ..., $6)
\* $1 is the userId field of the request body
InsertProgress(rows, id, body) ==
    rows \cup {[id |-> id, user_id |-> body.userId, story_id |-> body.storyId,
                chapter_id |-> body.chapterId, game_state |-> body.gameState,
                inventory |-> body.inventory, save_name |-> body.saveName]}

\* SELECT * FROM user_progress WHERE user_id = $1 ORDER BY id DESC LIMIT 1
SelectLatestProgress(rows, userId) ==
    LET mine == {p \in rows : p.user_id = SqlInt(userId)}
    IN  {p \in mine : \A q \in mine : q.id <= p.id}

\* A faulty variant of DeletedProgress: DELETE FROM user_progress WHERE id = $1
DeletedProgressAnyOwner(rows, progressId, userId) == {p \in rows : p.id = progressId}

\* DELETE FROM user_progress WHERE id = $1 AND user_id = $2 RETURNING id, save_name
DeletedProgress(rows, progressId, userId) ==
    {p \in rows : p.id = progressId /\ p.user_id = SqlInt(userId)}

\* A faulty variant of ProgressAfterDelete: the statement only selects the
\* matching rows, the removal is left to a later statement
ProgressAfterSelect(rows, deleted) == rows

\* The table user_progress after the DELETE that matched the rows `deleted`
ProgressAfterDelete(rows, deleted) == rows \ deleted

-----------------------------------------------------------------------------
(* Requests *)

\* sent counts the responses written for the request
Idle == [op |-> "idle", pc |-> "idle", header |-> NoHeader, body |-> NULL,
         params |-> NULL, user |-> NULL, local |-> NULL, res |-> NoResponse,
         sent |-> 0]

\* A faulty variant of Done: the handler returns without sending the response
DoneSilently(r, res) == [req[r] EXCEPT !.pc = "done", !.res = res]

\* The request in slot r once its handler has sent `res`
Done(r, res) == [req[r] EXCEPT !.pc = "done", !.res = res, !.sent = @ + 1]

\* What a client can put in the Authorization header: nothing, a scheme with no
\* token, a string that is no JWT, a JWT signed with another key, or a token
\* a client has been sent
Headers ==
    {NoHeader, SchemeOnly, Bearer(Garbage), Bearer(JwtSign(1, "astra", OtherKey, 0))}
        \cup {Bearer(t) : t \in delivered}

UserIds == {u.id : u \in users}
ProgressIds == 1 .. (progress_id_seq - 1)

\* A slot is free before its first request and once its response is sent
CanReceive(r) == req[r].pc \in {"idle", "done"} /\ started < MaxStarted

Init ==
    /\ users = {}
    /\ user_progress = {}
    /\ users_id_seq = 1
    /\ progress_id_seq = 1
    /\ now = 0
    /\ req = [r \in Reqs |-> Idle]
    /\ started = 0
    /\ issued = {}
    /\ createdBy = << >>
    /\ loggedOut = {}
    /\ signedUp = {}
    /\ delivered = {}
    /\ stored = {}

\* Time passes
Tick ==
    /\ now < MaxTime
    /\ now' = now + 1
    /\ UNCHANGED <<users, user_progress, users_id_seq, progress_id_seq, req, started,
                   issued, createdBy, loggedOut, signedUp, delivered, stored>>

-----------------------------------------------------------------------------
(* POST /sign-up *)

ReceiveSignUp(r) ==
    /\ CanReceive(r)
    /\ \E username \in Usernames, password \in Passwords, adventurerName \in AdventurerNames :
         req' = [req EXCEPT ![r] =
                   [Idle EXCEPT !.op = "sign-up", !.pc = "insert",
                                !.body = [username |-> username, password |-> password,
                                          adventurerName |-> adventurerName]]]
    /\ started' = started + 1
    /\ UNCHANGED <<users, user_progress, users_id_seq, progress_id_seq, now,
                   issued, createdBy, loggedOut, signedUp, delivered, stored>>

\* bcrypt.hash, then the INSERT; the row comes back as result.rows[0]
SignUpInsert(r) ==
    /\ req[r].op = "sign-up" /\ req[r].pc = "insert"
    /\ \E salt \in Salts, fails \in BOOLEAN :
         LET body == req[r].body
             hashedPassword == BcryptHash(body.password, salt)
             result == InsertUser(users, users_id_seq, body.username, hashedPassword,
                                  body.adventurerName)
         IN  IF fails
             THEN /\ req' = [req EXCEPT ![r] = Done(r, ErrorHandler(ConnectionError))]
                  /\ UNCHANGED <<users, users_id_seq>>
             ELSE IF result.error # {}
             THEN /\ req' = [req EXCEPT ![r] =
                               Done(r, ErrorHandler(CHOOSE err \in result.error : TRUE))]
                  /\ UNCHANGED <<users, users_id_seq>>
             ELSE /\ users' = result.table
                  /\ users_id_seq' = users_id_seq + 1
                  /\ \E user \in result.rows :
                       req' = [req EXCEPT ![r].pc = "sign", ![r].local = [user |-> user]]
    /\ UNCHANGED <<user_progress, progress_id_seq, now, started, issued, createdBy,
                   loggedOut, signedUp, delivered, stored>>

\* jwt.sign, and the UPDATE is sent
SignUpSign(r) ==
    /\ req[r].op = "sign-up" /\ req[r].pc = "sign"
    /\ LET user == req[r].local.user
           token == JwtSign(user.id, user.username, SECRET_KEY, now)
       IN  /\ req' = [req EXCEPT ![r].pc = "setToken",
                                 ![r].local = [user |-> user, token |-> token]]
           /\ issued' = issued \cup {token}
           /\ loggedOut' = loggedOut \ {token}
    /\ UNCHANGED <<users, user_progress, users_id_seq, progress_id_seq, now, started, createdBy, signedUp, delivered, stored>>

\* The UPDATE of the token column
SignUpSetToken(r) ==
    /\ req[r].op = "sign-up" /\ req[r].pc = "setToken"
    /\ \E fails \in BOOLEAN :
         IF fails
         THEN /\ req' = [req EXCEPT ![r] = Done(r, ErrorHandler(ConnectionError))]
              /\ UNCHANGED users
         ELSE /\ users' = UpdateToken(users, req[r].local.token, req[r].local.user.id)
              /\ req' = [req EXCEPT ![r].pc = "respond"]
    /\ stored' = stored \cup StoredTokens(users')
    /\ UNCHANGED <<user_progress, users_id_seq, progress_id_seq, now, started,
                   issued, createdBy, loggedOut, signedUp, delivered>>

\* res.json({ user: { user, token } })
SignUpRespond(r) ==
    /\ req[r].op = "sign-up" /\ req[r].pc = "respond"
    /\ req' = [req EXCEPT ![r] =
                 Done(r, Response(200, [user |-> [user |-> req[r].local.user,
                                                  token |-> req[r].local.token]]))]
    /\ signedUp' = signedUp \cup {[username |-> req[r].body.username,
                                    password |-> req[r].body.password]}
    /\ delivered' = delivered \cup {req[r].local.token}
    /\ UNCHANGED <<users, user_progress, users_id_seq, progress_id_seq, now, started,
                   issued, createdBy, loggedOut, stored>>

-----------------------------------------------------------------------------
(* POST /login *)

InvalidUsernameOrPassword == Response(401, [error |-> JsonString("Invalid username or password")])

\* A faulty variant of LoginUnknownUser: a response of its own for an unknown username
LoginUserNotFound == Response(404, [error |-> JsonString("User not found")])

\* The response when result.rows[0] is undefined
LoginUnknownUser == InvalidUsernameOrPassword

\* The response when bcrypt.compare is false
LoginWrongPassword == InvalidUsernameOrPassword

ReceiveLogin(r) ==
    /\ CanReceive(r)
    /\ \E username \in Usernames, password \in LoginPasswords :
         req' = [req EXCEPT ![r] =
                   [Idle EXCEPT !.op = "login", !.pc = "select",
                                !.body = [username |-> username, password |-> password]]]
    /\ started' = started + 1
    /\ UNCHANGED <<users, user_progress, users_id_seq, progress_id_seq, now,
                   issued, createdBy, loggedOut, signedUp, delivered, stored>>

\* The SELECT by username, and the test of result.rows[0]
LoginSelect(r) ==
    /\ req[r].op = "login" /\ req[r].pc = "select"
    /\ \E fails \in BOOLEAN :
         LET rows == SelectUserByUsername(users, req[r].body.username)
         IN  IF fails
             THEN req' = [req EXCEPT ![r] = Done(r, ErrorHandler(ConnectionError))]
             ELSE IF rows = {}
             THEN req' = [req EXCEPT ![r] = Done(r, LoginUnknownUser)]
             ELSE \E user \in rows :
                    req' = [req EXCEPT ![r].pc = "compare", ![r].local = [user |-> user]]
    /\ UNCHANGED <<users, user_progress, users_id_seq, progress_id_seq, now, started,
                   issued, createdBy, loggedOut, signedUp, delivered, stored>>

\* bcrypt.compare; on a match jwt.sign, and the UPDATE is sent
LoginCompare(r) ==
    /\ req[r].op = "login" /\ req[r].pc = "compare"
    /\ LET user == req[r].local.user
           newToken == JwtSign(user.id, user.username, SECRET_KEY, now)
       IN  IF ~BcryptCompare(req[r].body.password, user.password_hash)
           THEN /\ req' = [req EXCEPT ![r] = Done(r, LoginWrongPassword)]
                /\ UNCHANGED <<issued, loggedOut>>
           ELSE /\ req' = [req EXCEPT ![r].pc = "setToken",
                                      ![r].local = [user |-> user, newToken |-> newToken]]
                /\ issued' = issued \cup {newToken}
                /\ loggedOut' = loggedOut \ {newToken}
    /\ UNCHANGED <<users, user_progress, users_id_seq, progress_id_seq, now, started, createdBy, signedUp, delivered, stored>>

\* The UPDATE of the token column
LoginSetToken(r) ==
    /\ req[r].op = "login" /\ req[r].pc = "setToken"
    /\ \E fails \in BOOLEAN :
         IF fails
         THEN /\ req' = [req EXCEPT ![r] = Done(r, ErrorHandler(ConnectionError))]
              /\ UNCHANGED users
         ELSE /\ users' = UpdateToken(users, req[r].local.newToken, req[r].local.user.id)
              /\ req' = [req EXCEPT ![r].pc = "respond"]
    /\ stored' = stored \cup StoredTokens(users')
    /\ UNCHANGED <<user_progress, users_id_seq, progress_id_seq, now, started,
                   issued, createdBy, loggedOut, signedUp, delivered>>

\* res.json({ user: { ...user, token: newToken } })
LoginRespond(r) ==
    /\ req[r].op = "login" /\ req[r].pc = "respond"
    /\ req' = [req EXCEPT ![r] =
                 Done(r, Response(200, [user |-> [req[r].local.user EXCEPT
                                                     !.token = req[r].local.newToken]]))]
    /\ delivered' = delivered \cup {req[r].local.newToken}
    /\ UNCHANGED <<users, user_progress, users_id_seq, progress_id_seq, now, started,
                   issued, createdBy, loggedOut, signedUp, stored>>

-----------------------------------------------------------------------------
(* The protected routes: authenticateUser runs first *)

\* The request enters its route: the middleware answers 401 or calls next(),
\* and the handler runs up to its query
Enter(r, op, header, body, params) ==
    LET auth == AuthenticateUser(header, now)
        request == [Idle EXCEPT !.op = op, !.header = header, !.body = body,
                                !.params = params]
    IN  /\ CanReceive(r)
        /\ req' = [req EXCEPT ![r] =
                     IF auth.passed
                     THEN [request EXCEPT !.pc = "query", !.user = auth.user]
                     ELSE [request EXCEPT !.pc = "done", !.res = auth.res, !.sent = 1]]
        /\ started' = started + 1

ReceiveLogout(r) ==
    /\ \E header \in Headers : Enter(r, "logout", header, NULL, NULL)
    /\ UNCHANGED <<users, user_progress, users_id_seq, progress_id_seq, now,
                   issued, createdBy, loggedOut, signedUp, delivered, stored>>

\* UPDATE users SET token = NULL WHERE id = req.user.userId
Logout(r) ==
    /\ req[r].op = "logout" /\ req[r].pc = "query"
    /\ \E fails \in BOOLEAN :
         IF fails
         THEN /\ req' = [req EXCEPT ![r] = Done(r, InternalServerError)]
              /\ UNCHANGED <<users, loggedOut>>
         ELSE /\ users' = UpdateToken(users, NULL, req[r].user.userId)
              /\ req' = [req EXCEPT ![r] =
                           Done(r, Response(200, [message |-> "Logout successful"]))]
              /\ loggedOut' = loggedOut \cup {HeaderToken(req[r].header)}
    /\ UNCHANGED <<user_progress, users_id_seq, progress_id_seq, now, started,
                   issued, createdBy, signedUp, delivered, stored>>

ReceiveSaveProgress(r) ==
    /\ \E header \in Headers, userId \in {SqlNull} \cup {SqlInt(i) : i \in UserIds},
          saveName \in SaveNames :
         Enter(r, "save-progress", header,
               [userId |-> userId, storyId |-> 1, chapterId |-> 2, gameState |-> "state",
                inventory |-> "items", saveName |-> saveName],
               NULL)
    /\ UNCHANGED <<users, user_progress, users_id_seq, progress_id_seq, now,
                   issued, createdBy, loggedOut, signedUp, delivered, stored>>

\* The INSERT into user_progress
SaveProgress(r) ==
    /\ req[r].op = "save-progress" /\ req[r].pc = "query"
    /\ \E fails \in BOOLEAN :
         IF fails
         THEN /\ req' = [req EXCEPT ![r] = Done(r, InternalServerError)]
              /\ UNCHANGED <<user_progress, progress_id_seq, createdBy>>
         ELSE /\ user_progress' = InsertProgress(user_progress, progress_id_seq, req[r].body)
              /\ progress_id_seq' = progress_id_seq + 1
              /\ createdBy' = createdBy @@ (progress_id_seq :> req[r].user.userId)
              /\ req' = [req EXCEPT ![r] =
                           Done(r, Response(200, [savedProgress |->
                                                    [id |-> progress_id_seq,
                                                     save_name |-> req[r].body.saveName]]))]
    /\ UNCHANGED <<users, users_id_seq, now, started, issued, loggedOut, signedUp, delivered, stored>>

ReceiveLoadProgress(r) ==
    /\ \E header \in Headers : Enter(r, "load-progress", header, NULL, NULL)
    /\ UNCHANGED <<users, user_progress, users_id_seq, progress_id_seq, now,
                   issued, createdBy, loggedOut, signedUp, delivered, stored>>

\* The SELECT of the latest row of req.user.userId
LoadProgress(r) ==
    /\ req[r].op = "load-progress" /\ req[r].pc = "query"
    /\ \E fails \in BOOLEAN :
         LET rows == SelectLatestProgress(user_progress, req[r].user.userId)
         IN  IF fails
             THEN req' = [req EXCEPT ![r] = Done(r, InternalServerError)]
             ELSE IF rows = {}
             THEN req' = [req EXCEPT ![r] =
                            Done(r, Response(404, [error |-> JsonString("No saved game found.")]))]
             ELSE \E savedGameData \in rows :
                    req' = [req EXCEPT ![r] =
                              Done(r, Response(200, [savedGameData |-> savedGameData]))]
    /\ UNCHANGED <<users, user_progress, users_id_seq, progress_id_seq, now, started,
                   issued, createdBy, loggedOut, signedUp, delivered, stored>>

ReceiveDeleteProgress(r) ==
    /\ \E header \in Headers, progressId \in ProgressIds :
         Enter(r, "delete-progress", header, NULL, [progressId |-> progressId])
    /\ UNCHANGED <<users, user_progress, users_id_seq, progress_id_seq, now,
                   issued, createdBy, loggedOut, signedUp, delivered, stored>>

\* The DELETE ... WHERE id = $1 AND user_id = $2
DeleteProgress(r) ==
    /\ req[r].op = "delete-progress" /\ req[r].pc = "query"
    /\ \E fails \in BOOLEAN :
         LET rows == DeletedProgress(user_progress, req[r].params.progressId,
                                     req[r].user.userId)
         IN  IF fails
             THEN /\ req' = [req EXCEPT ![r] = Done(r, InternalServerError)]
                  /\ UNCHANGED user_progress
             ELSE /\ user_progress' = ProgressAfterDelete(user_progress, rows)
                  /\ req' = [req EXCEPT ![r] =
                               Done(r, IF Cardinality(rows) # 1
                                       THEN Response(404, [error |->
                                              JsonString("Saved game not found or unauthorized to delete.")])
                                       ELSE Response(200, [message |->
                                              "Saved game deleted successfully."]))]
    /\ UNCHANGED <<users, users_id_seq, progress_id_seq, now, started,
                   issued, createdBy, loggedOut, signedUp, delivered, stored>>

ReceiveUpdatePlayer(r) ==
    /\ \E header \in Headers, newAdventurerName \in NewAdventurerNames :
         Enter(r, "update-player", header, [newAdventurerName |-> newAdventurerName], NULL)
    /\ UNCHANGED <<users, user_progress, users_id_seq, progress_id_seq, now,
                   issued, createdBy, loggedOut, signedUp, delivered, stored>>

\* UPDATE users SET adventurer_name = $1 WHERE id = req.user.userId
UpdatePlayer(r) ==
    /\ req[r].op = "update-player" /\ req[r].pc = "query"
    /\ \E fails \in BOOLEAN :
         IF fails
         THEN /\ req' = [req EXCEPT ![r] = Done(r, ErrorHandler(ConnectionError))]
              /\ UNCHANGED users
         ELSE /\ users' = UpdateAdventurerName(users, req[r].body.newAdventurerName,
                                               req[r].user.userId)
              /\ req' = [req EXCEPT ![r] =
                           Done(r, Response(200, [message |->
                                                    "Saved Adventurer Name successfully."]))]
    /\ UNCHANGED <<user_progress, users_id_seq, progress_id_seq, now, started,
                   issued, createdBy, loggedOut, signedUp, delivered, stored>>

SignUpRoute(r) ==
    \/ ReceiveSignUp(r) \/ SignUpInsert(r) \/ SignUpSign(r)
    \/ SignUpSetToken(r) \/ SignUpRespond(r)

LoginRoute(r) ==
    \/ ReceiveLogin(r) \/ LoginSelect(r) \/ LoginCompare(r)
    \/ LoginSetToken(r) \/ LoginRespond(r)

LogoutRoute(r) == ReceiveLogout(r) \/ Logout(r)

SaveProgressRoute(r) == ReceiveSaveProgress(r) \/ SaveProgress(r)

LoadProgressRoute(r) == ReceiveLoadProgress(r) \/ LoadProgress(r)

DeleteProgressRoute(r) == ReceiveDeleteProgress(r) \/ DeleteProgress(r)

UpdatePlayerRoute(r) == ReceiveUpdatePlayer(r) \/ UpdatePlayer(r)

\* The whole server
Next ==
    \/ Tick
    \/ \E r \in Reqs :
         \/ SignUpRoute(r) \/ LoginRoute(r) \/ LogoutRoute(r)
         \/ SaveProgressRoute(r) \/ LoadProgressRoute(r) \/ DeleteProgressRoute(r)
         \/ UpdatePlayerRoute(r)

Spec == Init /\ [][Next]_vars

\* Clients that use the session routes and one protected route, and send
\* at most MaxSessionStarted requests
SessionBudget == started < MaxSessionStarted

NextSession ==
    \/ Tick
    \/ \E r \in Reqs :
         \/ SessionBudget /\ ReceiveSignUp(r)
         \/ SessionBudget /\ ReceiveLogin(r)
         \/ SessionBudget /\ ReceiveLogout(r)
         \/ SessionBudget /\ ReceiveLoadProgress(r)
         \/ SignUpInsert(r) \/ SignUpSign(r) \/ SignUpSetToken(r) \/ SignUpRespond(r)
         \/ LoginSelect(r) \/ LoginCompare(r) \/ LoginSetToken(r) \/ LoginRespond(r)
         \/ Logout(r)
         \/ LoadProgress(r)

SpecSession == Init /\ [][NextSession]_vars

\* Clients that sign up and use the saved-progress routes
NextProgress ==
    \E r \in Reqs :
        \/ SignUpRoute(r)
        \/ SaveProgressRoute(r) \/ LoadProgressRoute(r) \/ DeleteProgressRoute(r)

SpecProgress == Init /\ [][NextProgress]_vars

\* Clients that sign up, save progress and rename their adventurer
NextPlayer ==
    \E r \in Reqs :
        \/ SignUpRoute(r)
        \/ SaveProgressRoute(r) \/ UpdatePlayerRoute(r)

SpecPlayer == Init /\ [][NextPlayer]_vars

\* One step of the handler of the request in slot r
HandlerStep(r) ==
    \/ SignUpInsert(r) \/ SignUpSign(r) \/ SignUpSetToken(r) \/ SignUpRespond(r)
    \/ LoginSelect(r) \/ LoginCompare(r) \/ LoginSetToken(r) \/ LoginRespond(r)
    \/ Logout(r) \/ SaveProgress(r) \/ LoadProgress(r) \/ DeleteProgress(r)
    \/ UpdatePlayer(r)

\* Clients that use every route and send at most MaxAllStarted requests
AllBudget == started < MaxAllStarted

NextAll ==
    \/ Tick
    \/ \E r \in Reqs :
         \/ AllBudget /\ ReceiveSignUp(r)
         \/ AllBudget /\ ReceiveLogin(r)
         \/ AllBudget /\ ReceiveLogout(r)
         \/ AllBudget /\ ReceiveSaveProgress(r)
         \/ AllBudget /\ ReceiveLoadProgress(r)
         \/ AllBudget /\ ReceiveDeleteProgress(r)
         \/ AllBudget /\ ReceiveUpdatePlayer(r)
         \/ SignUpInsert(r) \/ SignUpSign(r) \/ SignUpSetToken(r) \/ SignUpRespond(r)
         \/ LoginSelect(r) \/ LoginCompare(r) \/ LoginSetToken(r) \/ LoginRespond(r)
         \/ Logout(r) \/ SaveProgress(r) \/ LoadProgress(r) \/ DeleteProgress(r)
         \/ UpdatePlayer(r)

\* Every pool.query and every bcrypt call settles, and the event loop runs
\* the continuation of every settled await: a handler that can take a step
\* eventually takes it
SpecAllFair == Init /\ [][NextAll]_vars /\ \A r \in Reqs : WF_vars(HandlerStep(r))

-----------------------------------------------------------------------------
(* Properties *)

ProtectedOps == {"logout", "save-progress", "load-progress", "delete-progress",
                 "update-player"}

\* In this step slot r received a request for a protected route, so the
\* middleware ran on it
GateRan(r) ==
    /\ started' = started + 1
    /\ req'[r] # req[r]
    /\ req'[r].op \in ProtectedOps

\* In this step the handler of the request in slot r sent its response
Answered(r, op) ==
    /\ req[r].op = op
    /\ req[r].pc \notin {"idle", "done"}
    /\ req'[r].pc = "done"

\* The stored token of the user a token is bound to equals the token
StoredOnUser(token) == \E u \in users : u.id = token.userId /\ u.token = token

\* Well-formed, unexpired and the current token of its user
ValidCredential(header) ==
    /\ header.present
    /\ LET token == HeaderToken(header)
       IN  /\ token.kind = "jwt"
           /\ token.key = SECRET_KEY
           /\ \A e \in token.exp : now < e
           /\ StoredOnUser(token)

\* C1: in every reachable state a presented credential passes authenticateUser
\* if and only if its token is well-formed, unexpired and equal to the token
\* stored on the row of the user it is bound to; any other is answered 401.
C1_GatePassesIffValid ==
    \A header \in Headers :
        LET auth == AuthenticateUser(header, now)
        IN  /\ auth.passed <=> ValidCredential(header)
            /\ ~ValidCredential(header) => auth.res.status = 401

\* C2: a successful logout clears the stored token of the user, and every
\* later protected request presenting a logged-out token (not issued again
\* since) is answered 401 by the middleware.
C2_LoggedOutTokenRejected ==
    [][\A r \in Reqs :
         /\ (Answered(r, "logout") /\ req'[r].res.status = 200)
                => \A u \in users' : u.id = req[r].user.userId => u.token = NULL
         /\ (GateRan(r) /\ HeaderToken(req'[r].header) \in loggedOut)
                => req'[r].pc = "done" /\ req'[r].res.status = 401]_vars

\* The tokens sent to clients for user id that authenticateUser lets through now
PassingTokens(id) ==
    {t \in delivered : t.userId = id /\ AuthenticateUser(Bearer(t), now).passed}

\* C3: in every reachable state at most one token per user passes the
\* middleware: a token issued earlier is rejected once a newer one is issued.
C3_AtMostOneTokenPasses ==
    \A u \in users : Cardinality(PassingTokens(u.id)) <= 1

\* C4: load-progress authenticated as A answers only with a row owned by A;
\* delete-progress authenticated as A naming a row owned by somebody else
\* answers 404 (when the statement itself does not fail, never 200), and the
\* row stays in the table, where its owner's load-progress finds a row.
C4_NoCrossUserReadOrDelete ==
    [][\A r \in Reqs :
         /\ (Answered(r, "load-progress") /\ req'[r].res.status = 200)
                => req'[r].res.body.savedGameData.user_id = SqlInt(req[r].user.userId)
         /\ Answered(r, "delete-progress")
                => \A p \in user_progress :
                     (p.id = req[r].params.progressId
                        /\ p.user_id # SqlInt(req[r].user.userId))
                     => /\ req'[r].res.status \in {404, 500}
                        /\ req'[r].res # InternalServerError => req'[r].res.status = 404
                        /\ p \in user_progress'
                        /\ \A b \in UserIds :
                             p.user_id = SqlInt(b)
                                => SelectLatestProgress(user_progress', b) # {}]_vars

\* A delete-progress authenticated as A named the row B saved, was answered
\* 404, and B's row is in the table
C4_Witness ==
    \E r \in Reqs, p \in user_progress :
        /\ req[r].op = "delete-progress" /\ req[r].pc = "done"
        /\ req[r].res.status = 404
        /\ req[r].params.progressId = p.id
        /\ \E b \in UserIds : /\ b # req[r].user.userId
                              /\ req[r].user.userId \in UserIds
                              /\ p.user_id = SqlInt(b)
                              /\ createdBy[p.id] = b

\* C5: every row of user_progress is owned by the identity the middleware
\* authenticated for the save-progress request that created it.
C5_OwnerIsAuthenticatedUser ==
    \A p \in user_progress : p.user_id = SqlInt(createdBy[p.id])

\* C6: load-progress authenticated as an owner answers with the latest of
\* the rows that owner saved and that are not deleted, and with 404 when there
\* is none.
C6_LoadsLatestOwnSave ==
    [][\A r \in Reqs :
         (Answered(r, "load-progress") /\ req'[r].res # InternalServerError)
            => LET mine == {p \in user_progress : createdBy[p.id] = req[r].user.userId}
               IN  IF mine = {}
                   THEN req'[r].res.status = 404
                   ELSE /\ req'[r].res.status = 200
                        /\ req'[r].res.body.savedGameData \in mine
                        /\ \A q \in mine : q.id <= req'[r].res.body.savedGameData.id]_vars

\* The credentials of the request in slot r are those of a successful sign-up
SignedUpWith(r) == req[r].body \in signedUp

\* The username of the request in slot r signed up with another password
SignedUpWithOtherPassword(r) ==
    \E c \in signedUp : /\ c.username = req[r].body.username
                        /\ c.password # req[r].body.password

\* C7: after a successful sign-up, a login with the same username and
\* password is never answered 401: it is answered 200 with a token that
\* passes authenticateUser as that user (or 500 when one of its two statements
\* fails); a login with the same username and another password is answered
\* 401 Invalid username or password (or 500 when its SELECT fails).
C7_LoginAfterSignUp ==
    [][\A r \in Reqs :
         /\ (Answered(r, "login") /\ SignedUpWith(r))
              => /\ req'[r].res.status \in {200, 500}
                 /\ req'[r].res.status = 500 => req[r].pc \in {"select", "setToken"}
                 /\ req'[r].res.status = 200 =>
                      LET auth == AuthenticateUser(Bearer(req'[r].res.body.user.token), now')
                      IN  /\ auth.passed
                          /\ auth.user.username = req[r].body.username
                          /\ \E u \in users' : /\ u.id = auth.user.userId
                                               /\ u.username = req[r].body.username
         /\ (Answered(r, "login") /\ SignedUpWithOtherPassword(r))
              => /\ req'[r].res.status \in {401, 500}
                 /\ req'[r].res.status = 500 => req[r].pc = "select"
                 /\ req'[r].res.status = 401 =>
                      req'[r].res.body = [error |-> JsonString("Invalid username or password")]]_vars

\* A login with signed-up credentials has been answered 200, and one with
\* the same username and another password 401
C7_Witness ==
    \E r1, r2 \in Reqs :
        /\ req[r1].op = "login" /\ req[r1].pc = "done" /\ req[r1].res.status = 200
        /\ SignedUpWith(r1)
        /\ AuthenticateUser(Bearer(req[r1].res.body.user.token), now).passed
        /\ req[r2].op = "login" /\ req[r2].pc = "done" /\ req[r2].res.status = 401
        /\ SignedUpWithOtherPassword(r2)
        /\ req[r2].local # NULL

\* In this step the login in slot r was refused because no row has its username
RefusedUnknownUser(r) ==
    /\ Answered(r, "login") /\ req[r].pc = "select"
    /\ SelectUserByUsername(users, req[r].body.username) = {}
    /\ req'[r].res # ErrorHandler(ConnectionError)

\* In this step the login in slot r was refused because its password does not match
RefusedWrongPassword(r) ==
    /\ Answered(r, "login") /\ req[r].pc = "compare"
    /\ req'[r].res.status # 200

\* C8: a login refused for an unknown username and a login refused for a
\* wrong password are answered with the same status and the same body, and
\* neither changes a row of users or of user_progress.
C8_SameRefusal ==
    [][\A r1, r2 \in Reqs :
         /\ (RefusedUnknownUser(r1) \/ RefusedWrongPassword(r1))
              => users' = users /\ user_progress' = user_progress
         \* r2 was refused for the other reason and its response is still there
         /\ (/\ RefusedUnknownUser(r1)
             /\ req[r2].op = "login" /\ req[r2].pc = "done"
             /\ req[r2].local # NULL /\ req[r2].res.status \notin {200, 500})
              => req'[r1].res = req[r2].res
         /\ (/\ RefusedWrongPassword(r1)
             /\ req[r2].op = "login" /\ req[r2].pc = "done"
             /\ req[r2].local = NULL /\ req[r2].res # ErrorHandler(ConnectionError))
              => req'[r1].res = req[r2].res]_vars

\* One login has been refused for an unknown username, another for a wrong
\* password, and both responses are there
C8_Witness ==
    \E r1, r2 \in Reqs :
        /\ req[r1].op = "login" /\ req[r1].pc = "done" /\ req[r1].local = NULL
        /\ req[r1].res.status = 401
        /\ req[r2].op = "login" /\ req[r2].pc = "done" /\ req[r2].local # NULL
        /\ req[r2].res.status = 401
        /\ ~BcryptCompare(req[r2].body.password, req[r2].local.user.password_hash)

\* The credential is missing, malformed, expired or revoked by a logout
BadCredential(header) ==
    \/ ~header.present
    \/ LET token == HeaderToken(header)
       IN  \/ token.kind # "jwt"
           \/ /\ token.kind = "jwt"
              /\ \/ token.key # SECRET_KEY
                 \/ \E e \in token.exp : now >= e
                 \/ token \in loggedOut

\* C9: a protected request whose credential is missing, malformed, expired
\* or revoked is answered 401 by the middleware, its handler does not run, and
\* users and user_progress are unchanged.
C9_BadCredentialRejected ==
    [][\A r \in Reqs :
         (GateRan(r) /\ BadCredential(req'[r].header))
            => /\ req'[r].pc = "done"
               /\ req'[r].res.status = 401
               /\ users' = users /\ user_progress' = user_progress]_vars

\* C10: a sign-up whose username is already in users is answered with a
\* failure that carries no token, inserts no row and leaves every row of users
\* as it is; no two rows of users ever share a username.
C10_DuplicateUsernameRefused ==
    [][/\ \A r \in Reqs :
            (/\ req[r].op = "sign-up" /\ req[r].pc = "insert" /\ req'[r].pc # "insert"
             /\ \E u \in users : u.username = req[r].body.username)
              => /\ req'[r].pc = "done"
                 /\ req'[r].res.status >= 400
                 /\ DOMAIN req'[r].res.body = {"error"}
                 /\ users' = users
       /\ \A u1, u2 \in users' : u1.username = u2.username => u1 = u2]_vars

\* Two sign-ups with one username ran concurrently: one inserted its row and
\* is still running, the other has been refused
C10_Witness ==
    \E r1, r2 \in Reqs :
        /\ req[r1].op = "sign-up" /\ req[r1].pc = "done"
        /\ req[r1].res = ErrorHandler(UniqueViolation)
        /\ req[r2].op = "sign-up" /\ req[r2].pc \in {"sign", "setToken", "respond"}
        /\ req[r2].body.username = req[r1].body.username
        /\ Cardinality({u \in users : u.username = req[r1].body.username}) = 1

\* C11: every token issued by sign-up or login carries an expiry, and once
\* the expiry has passed authenticateUser rejects the token.
C11_TokensExpire ==
    \A t \in issued :
        /\ t.exp # {}
        /\ (\E e \in t.exp : now >= e) => ~AuthenticateUser(Bearer(t), now).passed

\* C12: the token a successful login returns differs from every token
\* returned before (by the user's sign-up or by an earlier login).
C12_LoginReturnsNewToken ==
    [][\A r \in Reqs :
         (Answered(r, "login") /\ req'[r].res.status = 200)
            => req'[r].res.body.user.token \notin delivered]_vars

\* The request in slot r is being handled
InFlight(r) == req[r].pc \notin {"idle", "done"}

\* The response of a finished request is one of the terminal kinds
TerminalResponse(res) == res.status \in {200, 401, 404, 500}

\* C13: every request of the seven routes is eventually answered, and is
\* answered exactly once: no response is written while it is handled, exactly
\* one is written when its handler is done, also when a statement fails.
C13_ExactlyOneResponse ==
    /\ [](\A r \in Reqs :
            /\ InFlight(r) => req[r].sent = 0
            /\ req[r].pc = "done" => req[r].sent = 1 /\ TerminalResponse(req[r].res))
    /\ \A r \in Reqs : InFlight(r) ~> (req[r].pc = "done")

\* A request whose statement failed has been answered once
C13_Witness ==
    \E r \in Reqs :
        /\ req[r].pc = "done" /\ req[r].sent = 1
        /\ req[r].res \in {ErrorHandler(ConnectionError), InternalServerError}

\* The messages of the errors a handler can catch
CauseMessages == {ConnectionError.message, UniqueViolation.message}

\* C14: the response to a request that failed with a persistence or unexpected
\* error is the plain internal failure: its body carries no message of the
\* error that caused it.
C14_FailureCarriesNoDetail ==
    \A r \in Reqs :
        (req[r].pc = "done" /\ req[r].res.status = 500)
            => /\ req[r].res = InternalServerError
               /\ ~ /\ "message" \in DOMAIN req[r].res.body.error
                    /\ req[r].res.body.error.message \in CauseMessages

\* C15: a sign-up or login response that carries a token is sent only after
\* the token was written to the user's row, and a request that presents the
\* token right after the response passes authenticateUser.
C15_TokenStoredBeforeReturned ==
    [][\A r \in Reqs :
         ((Answered(r, "sign-up") \/ Answered(r, "login")) /\ req'[r].res.status = 200)
            => LET token == req'[r].res.body.user.token
               IN  /\ token \in stored
                   /\ token \in delivered'
                   /\ AuthenticateUser(Bearer(token), now').passed]_vars

\* A login and a sign-up have each returned a token
C15_Witness ==
    /\ \E r \in Reqs : req[r].op = "login" /\ req[r].pc = "done" /\ req[r].res.status = 200
    /\ \E r \in Reqs : req[r].op = "sign-up" /\ req[r].pc = "done" /\ req[r].res.status = 200
    /\ delivered # {} /\ delivered \subseteq stored

\* The stored token of user id (NULL when cleared or when there is no such user)
TokenOf(rows, id) ==
    IF \E u \in rows : u.id = id
    THEN (CHOOSE u \in rows : u.id = id).token
    ELSE NULL

\* The session state of user id
SessionOf(rows, id) == IF TokenOf(rows, id) = NULL THEN "NoSession" ELSE "Active"

\* In this step the request in slot r wrote the token it signed to its user's row
Issues(r, id) ==
    /\ req[r].pc = "setToken" /\ req'[r].pc = "respond"
    /\ req[r].local.user.id = id
    /\ TokenOf(users', id) =
          (IF req[r].op = "sign-up" THEN req[r].local.token ELSE req[r].local.newToken)
    /\ SessionOf(users', id) = "Active"

\* In this step the logout in slot r cleared the token of its user
Revokes(r, id) ==
    /\ Answered(r, "logout") /\ req'[r].res.status = 200
    /\ req[r].user.userId = id
    /\ SessionOf(users', id) = "NoSession"

\* C16: a logout clears its user's token whether or not it was already clear
\* (clearing a cleared token changes nothing and is answered with success),
\* clearing twice equals clearing once, and a user's stored token changes only
\* by an issue for that user (to Active) or a revoke of that user (to NoSession).
C16_RevokeIdempotent ==
    [][/\ \A r \in Reqs :
            (Answered(r, "logout") /\ req'[r].res.status = 200)
               => /\ SessionOf(users', req[r].user.userId) = "NoSession"
                  /\ SessionOf(users, req[r].user.userId) = "NoSession" => users' = users
                  /\ UpdateToken(users', NULL, req[r].user.userId) = users'
       /\ \A r \in Reqs :
            (Answered(r, "logout") /\ SessionOf(users, req[r].user.userId) = "NoSession")
               => req'[r].res \in {Response(200, [message |-> "Logout successful"]),
                                   InternalServerError}
       /\ \A id \in UserIds :
            TokenOf(users', id) # TokenOf(users, id)
               => \E r \in Reqs : Issues(r, id) \/ Revokes(r, id)]_vars

\* Two logouts of the same user have both succeeded and the token is cleared
C16_Witness ==
    \E u \in users :
        /\ u.token = NULL
        /\ \A r \in Reqs :
              /\ req[r].op = "logout" /\ req[r].pc = "done" /\ req[r].res.status = 200
              /\ req[r].user.userId = u.id

\* C17: a successful save-progress adds exactly one row, whose id no present
\* or earlier row had, and changes no other row of user_progress and no row
\* of users; a save under a name already used adds a second row.
C17_SaveAddsOneRow ==
    [][\A r \in Reqs :
         (Answered(r, "save-progress") /\ req'[r].res.status = 200)
            => /\ \E p \in user_progress' :
                    /\ p \notin user_progress
                    /\ user_progress' = user_progress \cup {p}
                    /\ p.id = req'[r].res.body.savedProgress.id
                    /\ p.id \notin DOMAIN createdBy
                    /\ \A q \in user_progress : q.id # p.id
                    /\ p.save_name = req[r].body.saveName
               /\ Cardinality(user_progress') = Cardinality(user_progress) + 1
               /\ users' = users]_vars

\* Two saves of one user under the same name are two rows
C17_Witness ==
    \E p, q \in user_progress :
        /\ p.id # q.id
        /\ p.save_name = q.save_name /\ p.user_id = q.user_id
        /\ createdBy[p.id] = createdBy[q.id]
        /\ \E r \in Reqs : /\ req[r].op = "save-progress" /\ req[r].pc = "done"
                           /\ req[r].res.status = 200
                           /\ req[r].res.body.savedProgress.id \in {p.id, q.id}

\* C18: a successful update-player sets the adventurer name of the user the
\* middleware authenticated and changes nothing else: that user's id, username,
\* password hash and token, all other users and all of user_progress stay, and
\* the token of the request still passes authenticateUser; a failed one
\* changes nothing.
C18_UpdatePlayerFrame ==
    [][\A r \in Reqs :
         Answered(r, "update-player")
            => /\ user_progress' = user_progress
               /\ Cardinality(users') = Cardinality(users)
               /\ req'[r].res.status # 200 => users' = users
               /\ req'[r].res.status = 200
                     => \A u \in users : \E v \in users' :
                          /\ v.id = u.id /\ v.username = u.username
                          /\ v.password_hash = u.password_hash /\ v.token = u.token
                          /\ u.id # req[r].user.userId => v = u
                          /\ u.id = req[r].user.userId
                                => v.adventurer_name = req[r].body.newAdventurerName
               /\ AuthenticateUser(req[r].header, now').passed]_vars

\* One of two users has renamed their adventurer, the other has not
C18_Witness ==
    \E r \in Reqs, u, v \in users :
        /\ req[r].op = "update-player" /\ req[r].pc = "done" /\ req[r].res.status = 200
        /\ u.id = req[r].user.userId /\ u.adventurer_name = req[r].body.newAdventurerName
        /\ v.id # u.id /\ v.adventurer_name \in AdventurerNames

\* The request in slot r is a delete-progress of row id answered with status
DeleteAnswered(r, id, status) ==
    /\ req[r].op = "delete-progress" /\ req[r].pc = "done"
    /\ req[r].params.progressId = id /\ req[r].res.status = status

\* C19: a delete-progress answered 200 removed, in that step, exactly the row
\* it names, and that row is owned by the caller; one answered otherwise
\* removed nothing; no two requests for the same id are both answered 200;
\* and a row leaves the table only by a delete of its owner.
C19_DeleteAtomic ==
    [][/\ \A r \in Reqs :
            Answered(r, "delete-progress")
               => IF req'[r].res.status = 200
                  THEN /\ \E p \in user_progress :
                            /\ p.id = req[r].params.progressId
                            /\ p.user_id = SqlInt(req[r].user.userId)
                            /\ user_progress' = user_progress \ {p}
                       /\ \A q \in user_progress' : q.id # req[r].params.progressId
                       /\ \A o \in Reqs \ {r} :
                            ~DeleteAnswered(o, req[r].params.progressId, 200)
                  ELSE user_progress' = user_progress
       /\ \A p \in user_progress \ user_progress' :
            \E r \in Reqs :
               /\ Answered(r, "delete-progress") /\ req'[r].res.status = 200
               /\ p.id = req[r].params.progressId
               /\ p.user_id = SqlInt(req[r].user.userId)]_vars

\* Of two deletes of the same row by its owner one was answered 200 and the
\* other 404
C19_Witness ==
    \E r, o \in Reqs, id \in DOMAIN createdBy :
        /\ DeleteAnswered(r, id, 200) /\ DeleteAnswered(o, id, 404)
        /\ req[r].user.userId = req[o].user.userId
        /\ \A p \in user_progress : p.id # id

\* The token was issued for the user row u
IssuedFor(token, u) ==
    /\ token \in issued
    /\ token.userId = u.id /\ token.username = u.username

\* C20: the token stored on a user's row is NULL or a token issued for that
\* user, and the identity authenticateUser attached to a request is the id and
\* username of an existing user for whom the token presented was issued.
C20_TokensBoundToTheirUser ==
    /\ \A u \in users : u.token # NULL => IssuedFor(u.token, u)
    /\ \A r \in Reqs :
          req[r].user # NULL
             => \E u \in users :
                  /\ req[r].user = [userId |-> u.id, username |-> u.username]
                  /\ IssuedFor(HeaderToken(req[r].header), u)

\* A logout authenticated as a user is in flight while that user's row holds
\* a token and another user's row holds none
C20_Witness ==
    \E r \in Reqs, u, v \in users :
        /\ req[r].op = "logout" /\ req[r].pc = "query"
        /\ req[r].user.userId = u.id /\ u.token # NULL
        /\ v.id # u.id /\ v.token = NULL

====
